---------------------------- MODULE Spec2Model ----------------------------
(***************************************************************************)
(* The cache-aside translation pipeline of translation-microservice.go:    *)
(* handleTranslation (method check, body decode, auth guard, field         *)
(* validation) and translateText (cache key, cache lookup, language tag    *)
(* parsing, provider call, cache write), run by concurrent HTTP requests   *)
(* against one shared cache store.                                         *)
(*                                                                         *)
(* Strings that the code concatenates or serializes (text, language codes, *)
(* cache keys) are sequences of one-character strings, so that the ':'     *)
(* inside a field is the same symbol as the ':' the key format inserts.    *)
(* Auth tokens are only ever compared, and are plain strings.              *)
(***************************************************************************)
EXTENDS Integers, Sequences, FiniteSets, TLC

VARIABLES
    authToken,   \* config.AuthToken, set once by init()
    cache,       \* the store: key -> [val, ttl, by]; absent keys hold no entry
    pc,          \* per request slot: idle, lookup, translate, store, done
    req,         \* per slot: the TranslationRequest being served
    cacheKey,    \* per slot: translateText's cacheKey
    response,    \* per slot: translateText's response
    status,      \* per slot: HTTP status written (0: none yet)
    kind,        \* per slot: which http.Error / fmt.Errorf ended the request
    calls,       \* per slot: number of cache Get, provider, cache Set calls issued
    seen,        \* per slot: what each of those calls answered
    health       \* the last answer of handleHealth, and what it was given

vars == <<authToken, cache, pc, req, cacheKey, response, status, kind, calls, seen, health>>

-----------------------------------------------------------------------------
(* Bounds *)

\* Number of requests served in a run; each has a slot of its own.
NReq == 2

Slots == 1..NReq

-----------------------------------------------------------------------------
(* Program constants *)

\* config.TTL, in days: time.Hour * 24 * 14.
TTL == 14

StatusOK == 200
StatusBadRequest == 400
StatusUnauthorized == 401
StatusMethodNotAllowed == 405
StatusInternalServerError == 500
StatusServiceUnavailable == 503

-----------------------------------------------------------------------------
(* Inputs *)

Empty == << >>

\* Language codes a request may carry: absent, parsable, and unparsable ones.
SourceLangs == { Empty, <<"e","n">>, <<"e","n",":","e","s">> }
TargetLangs == { Empty, <<"e","s">>, <<"e","s",":","h","i">> }

\* Texts: absent, plain, and one containing the key separator.
Texts == { Empty, <<"y","o">>, <<"h","i",":","y","o">> }

\* Tokens a request may supply; tokens the deployment may configure.
Tokens == { "", "tok", "bad" }
ConfigTokens == { "", "tok" }

\* A request whose body json.Decode rejects carries no fields.
NoFields(m, ok) ==
    [Method |-> m, BodyOK |-> ok, Text |-> Empty, SourceLang |-> Empty,
     TargetLang |-> Empty, AuthToken |-> ""]

Requests ==
    { NoFields("GET", TRUE), NoFields("POST", FALSE) } \cup
    [Method : {"POST"}, BodyOK : {TRUE}, Text : Texts, SourceLang : SourceLangs,
     TargetLang : TargetLangs, AuthToken : Tokens]

\* What the provider may answer: an error, no translation, or one translation
\* with the source language it reports.
ProviderResults ==
    { [Text |-> <<"Y","O">>, Source |-> <<"e","n">>],
      [Text |-> <<"J","O">>, Source |-> <<"u","n","d">>] }

ProviderSuccesses ==
    { [err |-> FALSE, translations |-> << t >>] : t \in ProviderResults }

ProviderResponses ==
    { [err |-> TRUE, translations |-> << >>],
      [err |-> FALSE, translations |-> << >>] } \cup ProviderSuccesses

-----------------------------------------------------------------------------
(* Pure functions *)

\* fmt.Sprintf("translate:%s:%s:%s", req.SourceLang, req.TargetLang, req.Text)
KeyPrefix == <<"t","r","a","n","s","l","a","t","e",":">>

CacheKeyNoSource(r) ==
    KeyPrefix \o r.TargetLang \o <<":">> \o r.Text

CacheKey(r) ==
    KeyPrefix \o r.SourceLang \o <<":">> \o r.TargetLang \o <<":">> \o r.Text

\* The (sourceLang, targetLang, text) triple of a request.
Triple(r) ==
    [SourceLang |-> r.SourceLang, TargetLang |-> r.TargetLang, Text |-> r.Text]

NoTriple == [SourceLang |-> Empty, TargetLang |-> Empty, Text |-> Empty]

\* language.Parse: err == nil exactly for a well-formed tag.  Over the inputs
\* drawn here a tag is a primary language subtag of two or three letters; any
\* other character (':' among them) makes Parse fail.
Letters == {"d","e","h","i","n","o","s","u","y"}

ParseAcceptsAll(tag) == FALSE

ParseErr(tag) ==
    ~ (Len(tag) \in 2..3 /\ \A i \in 1..Len(tag) : tag[i] \in Letters)

\* authenticateRequest: token == config.AuthToken
authenticateAlways(token) == TRUE

authenticateRequest(token) ==
    token = authToken

\* The zero value of TranslationResponse.
ZeroResponse ==
    [TranslatedText |-> Empty, SourceLang |-> Empty, TargetLang |-> Empty,
     CacheHit |-> FALSE]

\* json.Marshal(response): an object of four members in struct order.  A member
\* is [name, kind, val]; a boolean is written as the literal true or false.
BoolLit(b) == IF b THEN <<"true">> ELSE <<"false">>

Marshal(r) ==
    << [name |-> "translated_text", kind |-> "string", val |-> r.TranslatedText],
       [name |-> "source_lang",     kind |-> "string", val |-> r.SourceLang],
       [name |-> "target_lang",     kind |-> "string", val |-> r.TargetLang],
       [name |-> "cache_hit",       kind |-> "bool",   val |-> BoolLit(r.CacheHit)] >>

\* json.Unmarshal into a zero TranslationResponse: a member whose name is a
\* field's tag must have the field's JSON type (else an error); a field with
\* no member keeps its zero value; the last member of a name wins.
FieldKind(n) == IF n = "cache_hit" THEN "bool" ELSE "string"

FieldNames == {"translated_text", "source_lang", "target_lang", "cache_hit"}

UnmarshalErr(v) ==
    \E i \in 1..Len(v) : v[i].name \in FieldNames /\ v[i].kind # FieldKind(v[i].name)

Member(v, n, zero) ==
    LET idx == { i \in 1..Len(v) : v[i].name = n }
    IN  IF idx = {} THEN zero
        ELSE v[CHOOSE i \in idx : \A j \in idx : j <= i].val

Unmarshal(v) ==
    [TranslatedText |-> Member(v, "translated_text", Empty),
     SourceLang     |-> Member(v, "source_lang", Empty),
     TargetLang     |-> Member(v, "target_lang", Empty),
     CacheHit       |-> Member(v, "cache_hit", <<"false">>) = <<"true">>]

\* A stored value that is JSON but not a TranslationResponse (cache_hit is a string).
Undecodable == << [name |-> "cache_hit", kind |-> "string", val |-> <<"y">>] >>

\* response.CacheHit = true on a cache hit.
KeepCacheHit(r) == r

ForceCacheHit(r) ==
    [r EXCEPT !.CacheHit = TRUE]

BuildResponseDetected(r, pr) ==
    [TranslatedText |-> pr.translations[1].Text,
     SourceLang     |-> pr.translations[1].Source,
     TargetLang     |-> r.TargetLang,
     CacheHit       |-> FALSE]

BuildResponseHit(r, pr) ==
    [TranslatedText |-> pr.translations[1].Text,
     SourceLang     |-> IF r.SourceLang # Empty THEN r.SourceLang
                        ELSE pr.translations[1].Source,
     TargetLang     |-> r.TargetLang,
     CacheHit       |-> TRUE]

\* The response translateText builds from the provider's answer: the caller's
\* source when one was supplied, else translations[0].Source.String().
BuildResponse(r, pr) ==
    [TranslatedText |-> pr.translations[1].Text,
     SourceLang     |-> IF r.SourceLang # Empty THEN r.SourceLang
                        ELSE pr.translations[1].Source,
     TargetLang     |-> r.TargetLang,
     CacheHit       |-> FALSE]

\* The store after redisClient.Set(ctx, key, jsonData, config.TTL) succeeded:
\* a whole-value overwrite of the one key.  "by" records the writing request.
StoreSkip(c, k, r, by) == c

StoreSetIfAbsent(c, k, r, by) ==
    IF k \in DOMAIN c THEN c
    ELSE [x \in DOMAIN c \cup {k} |->
            IF x = k THEN [val |-> Marshal(r), ttl |-> TTL, by |-> by] ELSE c[x]]

StoreSetNoTTL(c, k, r, by) ==
    [x \in DOMAIN c \cup {k} |->
        IF x = k THEN [val |-> Marshal(r), ttl |-> 0, by |-> by] ELSE c[x]]

StoreSetAlone(c, k, r, by) ==
    [x \in {k} |-> [val |-> Marshal(r), ttl |-> TTL, by |-> by]]

StoreSet(c, k, r, by) ==
    [x \in DOMAIN c \cup {k} |->
        IF x = k THEN [val |-> Marshal(r), ttl |-> TTL, by |-> by] ELSE c[x]]

\* Keys under which some request may look an entry up.
LookupKeys ==
    { CacheKey(r) : r \in { q \in Requests : q.Text # Empty /\ q.TargetLang # Empty } }

-----------------------------------------------------------------------------
(* State *)

NoCalls == [get |-> 0, prov |-> 0, set |-> 0]
NoSeen  == [get |-> "none", prov |-> "none", set |-> "none",
            by |-> NoTriple, text |-> Empty, source |-> Empty]

NoHealth == [status |-> 0, method |-> "none", ping |-> "none", provider |-> "none"]

Init ==
    /\ authToken \in ConfigTokens
    /\ cache = << >>
    /\ pc = [p \in Slots |-> "idle"]
    /\ req = [p \in Slots |-> NoFields("GET", TRUE)]
    /\ cacheKey = [p \in Slots |-> Empty]
    /\ response = [p \in Slots |-> ZeroResponse]
    /\ status = [p \in Slots |-> 0]
    /\ kind = [p \in Slots |-> "None"]
    /\ calls = [p \in Slots |-> NoCalls]
    /\ seen = [p \in Slots |-> NoSeen]
    /\ health = NoHealth

\* http.Error(w, msg, code) / the 200 reply: the request is over.
Reply(p, code, k) ==
    /\ pc' = [pc EXCEPT ![p] = "done"]
    /\ status' = [status EXCEPT ![p] = code]
    /\ kind' = [kind EXCEPT ![p] = k]

-----------------------------------------------------------------------------
(* Operations *)

\* The http.Error, if any, with which handleTranslation ends before it calls
\* translateText: method, body decode, auth guard, then the required fields.
RejectionValidatesFirst(r) ==
    IF r.Method # "POST" THEN "MethodNotAllowed"
    ELSE IF ~ r.BodyOK THEN "InvalidRequest"
    ELSE IF r.Text = Empty THEN "MissingField"
    ELSE IF r.TargetLang = Empty THEN "MissingField"
    ELSE IF ~ authenticateRequest(r.AuthToken) THEN "Unauthorized"
    ELSE "None"

RejectionSkipsText(r) ==
    IF r.Method # "POST" THEN "MethodNotAllowed"
    ELSE IF ~ r.BodyOK THEN "InvalidRequest"
    ELSE IF ~ authenticateRequest(r.AuthToken) THEN "Unauthorized"
    ELSE IF r.TargetLang = Empty THEN "MissingField"
    ELSE "None"

Rejection(r) ==
    IF r.Method # "POST" THEN "MethodNotAllowed"
    ELSE IF ~ r.BodyOK THEN "InvalidRequest"
    ELSE IF ~ authenticateRequest(r.AuthToken) THEN "Unauthorized"
    ELSE IF r.Text = Empty THEN "MissingField"
    ELSE IF r.TargetLang = Empty THEN "MissingField"
    ELSE "None"

\* The status handleTranslation writes for each way a request ends: its own
\* http.Error calls, and StatusInternalServerError for every error that
\* translateText returns.
StatusOf(k) ==
    CASE k = "None"             -> StatusOK
      [] k = "MethodNotAllowed" -> StatusMethodNotAllowed
      [] k = "InvalidRequest"   -> StatusBadRequest
      [] k = "Unauthorized"     -> StatusUnauthorized
      [] k = "MissingField"     -> StatusBadRequest
      [] OTHER                  -> StatusInternalServerError

\* What translateText returns after redisClient.Set: a failed Set is logged.
SetOutcomeSurfaced(answer) == IF answer = "ok" THEN "None" ELSE "StoreUnavailable"

SetOutcome(answer) == "None"

\* handleTranslation up to the call of translateText, and translateText's
\* first line (the cache key).  None of it does I/O, so it is one step.
HandleTranslation(p, r) ==
    /\ pc[p] = "idle"
    /\ req' = [req EXCEPT ![p] = r]
    /\ IF Rejection(r) # "None"
         THEN Reply(p, StatusOf(Rejection(r)), Rejection(r)) /\ UNCHANGED cacheKey
         ELSE /\ pc' = [pc EXCEPT ![p] = "lookup"]
              /\ cacheKey' = [cacheKey EXCEPT ![p] = CacheKey(r)]
              /\ UNCHANGED <<status, kind>>
    /\ UNCHANGED <<authToken, health, cache, response, calls, seen>>

\* translateText, from redisClient.Get to the parsing of the language tags.
\* answer = "reply": the store answers (the value, or redis.Nil when the key
\* holds no entry); answer = "error": the Get fails with another error.
\* redisClient is never nil here: init() sets it or exits.
CacheGet(p, answer) ==
    /\ pc[p] = "lookup"
    /\ calls' = [calls EXCEPT ![p].get = @ + 1]
    /\ IF answer = "reply" /\ cacheKey[p] \in DOMAIN cache
         THEN \* err == nil: cache hit
              LET e == cache[cacheKey[p]] IN
              /\ seen' = [seen EXCEPT ![p].get = "found", ![p].by = e.by]
              /\ IF UnmarshalErr(e.val)
                   THEN /\ Reply(p, StatusOf("CacheDecode"), "CacheDecode")
                        /\ UNCHANGED response
                   ELSE /\ response' = [response EXCEPT ![p] = ForceCacheHit(Unmarshal(e.val))]
                        /\ Reply(p, StatusOf("None"), "None")
         ELSE \* redis.Nil, or a Redis error that is logged: perform translation
              /\ seen' = [seen EXCEPT ![p].get = IF answer = "reply" THEN "nil" ELSE "err"]
              /\ UNCHANGED response
              /\ IF req[p].SourceLang # Empty /\ ParseErr(req[p].SourceLang)
                   THEN Reply(p, StatusOf("InvalidLanguageTag"), "InvalidLanguageTag")
                 ELSE IF ParseErr(req[p].TargetLang)
                   THEN Reply(p, StatusOf("InvalidLanguageTag"), "InvalidLanguageTag")
                 ELSE /\ pc' = [pc EXCEPT ![p] = "translate"]
                      /\ UNCHANGED <<status, kind>>
    /\ UNCHANGED <<authToken, health, cache, req, cacheKey>>

TranslateRetries(p, pr) ==
    /\ pc[p] = "translate"
    /\ calls' = [calls EXCEPT ![p].prov = @ + 1]
    /\ IF pr.err
         THEN /\ seen' = [seen EXCEPT ![p].prov = "err"]
              /\ UNCHANGED <<pc, status, kind>>
              /\ UNCHANGED response
       ELSE IF Len(pr.translations) = 0
         THEN /\ seen' = [seen EXCEPT ![p].prov = "empty"]
              /\ Reply(p, StatusOf("NoTranslation"), "NoTranslation")
              /\ UNCHANGED response
       ELSE /\ seen' = [seen EXCEPT ![p].prov = "ok",
                                    ![p].text = pr.translations[1].Text,
                                    ![p].source = pr.translations[1].Source]
            /\ response' = [response EXCEPT ![p] = BuildResponse(req[p], pr)]
            /\ pc' = [pc EXCEPT ![p] = "store"]
            /\ UNCHANGED <<status, kind>>
    /\ UNCHANGED <<authToken, health, cache, req, cacheKey>>

TranslateWrapsEmpty(p, pr) ==
    /\ pc[p] = "translate"
    /\ calls' = [calls EXCEPT ![p].prov = @ + 1]
    /\ IF pr.err
         THEN /\ seen' = [seen EXCEPT ![p].prov = "err"]
              /\ Reply(p, StatusOf("ProviderError"), "ProviderError")
              /\ UNCHANGED response
       ELSE IF Len(pr.translations) = 0
         THEN /\ seen' = [seen EXCEPT ![p].prov = "empty"]
              /\ Reply(p, StatusOf("ProviderError"), "ProviderError")
              /\ UNCHANGED response
       ELSE /\ seen' = [seen EXCEPT ![p].prov = "ok",
                                    ![p].text = pr.translations[1].Text,
                                    ![p].source = pr.translations[1].Source]
            /\ response' = [response EXCEPT ![p] = BuildResponse(req[p], pr)]
            /\ pc' = [pc EXCEPT ![p] = "store"]
            /\ UNCHANGED <<status, kind>>
    /\ UNCHANGED <<authToken, health, cache, req, cacheKey>>

\* translateText, from translateClient.Translate to the response it builds.
Translate(p, pr) ==
    /\ pc[p] = "translate"
    /\ calls' = [calls EXCEPT ![p].prov = @ + 1]
    /\ IF pr.err
         THEN /\ seen' = [seen EXCEPT ![p].prov = "err"]
              /\ Reply(p, StatusOf("ProviderError"), "ProviderError")
              /\ UNCHANGED response
       ELSE IF Len(pr.translations) = 0
         THEN /\ seen' = [seen EXCEPT ![p].prov = "empty"]
              /\ Reply(p, StatusOf("NoTranslation"), "NoTranslation")
              /\ UNCHANGED response
       ELSE /\ seen' = [seen EXCEPT ![p].prov = "ok",
                                    ![p].text = pr.translations[1].Text,
                                    ![p].source = pr.translations[1].Source]
            /\ response' = [response EXCEPT ![p] = BuildResponse(req[p], pr)]
            /\ pc' = [pc EXCEPT ![p] = "store"]
            /\ UNCHANGED <<status, kind>>
    /\ UNCHANGED <<authToken, health, cache, req, cacheKey>>

\* translateText, from json.Marshal to its return, and the 200 reply.
\* answer = "ok": the Set succeeds; answer = "error": it fails and is logged.
CacheSet(p, answer) ==
    /\ pc[p] = "store"
    /\ calls' = [calls EXCEPT ![p].set = @ + 1]
    /\ seen' = [seen EXCEPT ![p].set = IF answer = "ok" THEN "ok" ELSE "err"]
    /\ cache' = IF answer = "ok"
                  THEN StoreSet(cache, cacheKey[p], response[p], Triple(req[p]))
                  ELSE cache
    /\ Reply(p, StatusOf(SetOutcome(answer)), SetOutcome(answer))
    /\ UNCHANGED <<authToken, health, req, cacheKey, response>>

\* The store drops an entry whose TTL has elapsed (an expiration of 0 is an
\* entry that is kept for ever).
Expire(k) ==
    /\ k \in DOMAIN cache
    /\ cache[k].ttl > 0
    /\ cache' = [x \in DOMAIN cache \ {k} |-> cache[x]]
    /\ UNCHANGED <<authToken, health, pc, req, cacheKey, response, status, kind, calls, seen>>

\* Another writer of the store leaves, under a key, a value that is not a
\* serialized TranslationResponse (the case json.Unmarshal's error branch
\* handles).  Such a value shows only when it is read, so it is written while
\* a request is about to look the key up.
StoreCorrupt(k) ==
    /\ \E p \in Slots : pc[p] = "lookup" /\ cacheKey[p] = k
    /\ cache' = [x \in DOMAIN cache \cup {k} |->
                    IF x = k THEN [val |-> Undecodable, ttl |-> TTL, by |-> NoTriple]
                    ELSE cache[x]]
    /\ UNCHANGED <<authToken, health, pc, req, cacheKey, response, status, kind, calls, seen>>

\* The status handleHealth writes: the method check, then redisClient.Ping.
\* The translation provider is not consulted.
HealthStatusChecksProvider(method, ping, provider) ==
    IF method # "GET" THEN StatusMethodNotAllowed
    ELSE IF ping # "pong" \/ provider # "up" THEN StatusServiceUnavailable
    ELSE StatusOK

HealthStatus(method, ping, provider) ==
    IF method # "GET" THEN StatusMethodNotAllowed
    ELSE IF ping # "pong" THEN StatusServiceUnavailable
    ELSE StatusOK

\* handleHealth.  ping: whether the store answers redisClient.Ping; provider:
\* whether the translation provider could be reached at that time.
HandleHealth(method, ping, provider) ==
    /\ health' = [status |-> HealthStatus(method, ping, provider),
                  method |-> method, ping |-> ping, provider |-> provider]
    /\ UNCHANGED <<authToken, cache, pc, req, cacheKey, response, status, kind, calls, seen>>

Next ==
    \/ \E p \in Slots, r \in Requests : HandleTranslation(p, r)
    \/ \E p \in Slots, a \in {"reply", "error"} : CacheGet(p, a)
    \/ \E p \in Slots, pr \in ProviderResponses : Translate(p, pr)
    \/ \E p \in Slots, a \in {"ok", "error"} : CacheSet(p, a)
    \/ \E k \in LookupKeys : Expire(k)
    \/ \E k \in LookupKeys : StoreCorrupt(k)

Spec == Init /\ [][Next]_vars

\* Requests served one after the other, the store answering every call and
\* keeping every entry, the provider returning a translation.
SeqTurn(p) ==
    \A q \in Slots : (q < p => pc[q] = "done") /\ (q > p => pc[q] = "idle")

NextSeq ==
    \/ \E p \in Slots, r \in Requests : SeqTurn(p) /\ HandleTranslation(p, r)
    \/ \E p \in Slots : SeqTurn(p) /\ CacheGet(p, "reply")
    \/ \E p \in Slots, pr \in ProviderSuccesses : SeqTurn(p) /\ Translate(p, pr)
    \/ \E p \in Slots : SeqTurn(p) /\ CacheSet(p, "ok")

SeqSpec == Init /\ [][NextSeq]_vars

\* The health endpoint called at any time between sequential translations.
NextHealth ==
    \/ \E m \in {"GET", "POST"}, g \in {"pong", "error"}, u \in {"up", "down"} :
          HandleHealth(m, g, u)
    \/ NextSeq

HealthSpec == Init /\ [][NextHealth]_vars

\* Requests served one after the other while entries expire in between.
NextExpiry ==
    \/ \E k \in LookupKeys : Expire(k)
    \/ NextSeq

ExpirySpec == Init /\ [][NextExpiry]_vars

-----------------------------------------------------------------------------
(* Vocabulary of the properties *)

\* The request was a POST whose body decoded, so that it has fields.
Posted(r) == r.Method = "POST" /\ r.BodyOK

\* The language codes among the inputs that are well-formed tags.
Parsable == { <<"e","n">>, <<"e","s">> }

\* Text and target present, and a tag that does not parse.
UnparsableTags(r) ==
    /\ Posted(r) /\ r.Text # Empty /\ r.TargetLang # Empty
    /\ \/ r.TargetLang \notin Parsable
       \/ r.SourceLang # Empty /\ r.SourceLang \notin Parsable

\* A valid request: fields present, tags parsable, token accepted.
ValidRequest(r) ==
    /\ Posted(r) /\ r.AuthToken = authToken
    /\ r.Text # Empty /\ r.TargetLang \in Parsable
    /\ r.SourceLang = Empty \/ r.SourceLang \in Parsable

Started(p) == pc[p] # "idle"
Done(p) == pc[p] = "done"

SameAnswer(a, b) ==
    /\ a.TranslatedText = b.TranslatedText
    /\ a.SourceLang = b.SourceLang
    /\ a.TargetLang = b.TargetLang

-----------------------------------------------------------------------------
(* Properties *)

\* C1: of two sequential calls with the same valid triple, the first of which
\* found no entry in the cache, the first succeeds with cacheHit=false and the
\* second succeeds with cacheHit=true, the same translated_text, source_lang
\* and target_lang, and no provider call of its own.
C1_SequentialCallsHit ==
    \A i \in Slots, j \in Slots :
        ( /\ i < j /\ Done(i) /\ Done(j)
          /\ ValidRequest(req[i]) /\ ValidRequest(req[j])
          /\ Triple(req[i]) = Triple(req[j])
          /\ seen[i].get = "nil" )
        => /\ status[i] = StatusOK /\ ~ response[i].CacheHit
           /\ status[j] = StatusOK /\ response[j].CacheHit
           /\ SameAnswer(response[j], response[i])
           /\ calls[j].prov = 0

C1_Witness ==
    \E i \in Slots, j \in Slots :
        /\ i < j /\ Done(i) /\ Done(j)
        /\ ValidRequest(req[i]) /\ Triple(req[i]) = Triple(req[j])
        /\ req[i].SourceLang = Empty
        /\ seen[i].get = "nil" /\ calls[i].prov = 1
        /\ response[j].CacheHit /\ response[j].TranslatedText = <<"J","O">>

C3_OpenDeploymentAllowsAll ==
    authToken = "" => \A p \in Slots : kind[p] # "Unauthorized"

\* C4: with a token configured, a request is refused by the guard, with 401,
\* if and only if its auth_token differs from the configured token.
C4_AllowedIffTokenEqual ==
    authToken # "" =>
        \A p \in Slots :
            (Started(p) /\ Posted(req[p]))
            => /\ kind[p] = "Unauthorized" <=> req[p].AuthToken # authToken
               /\ kind[p] = "Unauthorized" => Done(p) /\ status[p] = StatusUnauthorized
               /\ status[p] = StatusUnauthorized => kind[p] = "Unauthorized"

C4_Witness ==
    /\ authToken # ""
    /\ \E p \in Slots, q \in Slots :
        /\ Done(p) /\ req[p].AuthToken = "" /\ Posted(req[p]) /\ status[p] = StatusUnauthorized
        /\ Done(q) /\ req[q].AuthToken = authToken /\ status[q] = StatusOK

\* C5: with auth enabled, a request whose auth_token mismatches ends
\* Unauthorized (401) whatever its other fields are (no field validation has
\* run), having issued no cache Get, cache Set or provider call; the step
\* that refuses it leaves the cache as it was.
C5_Refused(p) ==
    /\ Started(p) /\ Posted(req[p])
    /\ authToken # "" /\ req[p].AuthToken # authToken

C5_UnauthorizedDoesNoWork ==
    /\ [](\A p \in Slots :
            C5_Refused(p)
            => /\ Done(p) /\ kind[p] = "Unauthorized" /\ status[p] = StatusUnauthorized
               /\ calls[p] = NoCalls /\ seen[p] = NoSeen
               /\ cacheKey[p] = Empty /\ response[p] = ZeroResponse)
    /\ [][\A p \in Slots : (~ Started(p) /\ C5_Refused(p)') => cache' = cache]_vars

C5_Witness ==
    \E p \in Slots, q \in Slots :
        /\ C5_Refused(p) /\ req[p].Text = Empty /\ status[p] = StatusUnauthorized
        /\ Done(q) /\ seen[q].set = "ok" /\ cacheKey[q] \in DOMAIN cache

\* C6: a valid request whose provider call succeeded ends Succeeded with
\* cache_hit=false and the provider's translation, whether the cache lookup
\* answered not-found or failed, and whether the cache write succeeded or
\* failed: the answer is the same in all four cases.
C6_MissAnswer(p) ==
    [TranslatedText |-> seen[p].text,
     SourceLang     |-> IF req[p].SourceLang # Empty THEN req[p].SourceLang
                        ELSE seen[p].source,
     TargetLang     |-> req[p].TargetLang,
     CacheHit       |-> FALSE]

C6_CacheOutageAbsorbed ==
    \A p \in Slots :
        (Done(p) /\ ValidRequest(req[p]) /\ seen[p].prov = "ok")
        => /\ seen[p].get \in {"nil", "err"} /\ seen[p].set \in {"ok", "err"}
           /\ status[p] = StatusOK /\ kind[p] = "None"
           /\ response[p] = C6_MissAnswer(p)

C6_Witness ==
    \E p \in Slots, q \in Slots :
        /\ Done(p) /\ ValidRequest(req[p]) /\ seen[p].prov = "ok"
        /\ seen[p].get = "err" /\ seen[p].set = "err" /\ status[p] = StatusOK
        /\ Done(q) /\ ValidRequest(req[q]) /\ seen[q].prov = "ok"
        /\ seen[q].get = "nil" /\ seen[q].set = "err" /\ status[q] = StatusOK

\* C7: a missing or invalid field (an unparsable language tag included)
\* yields 400, an auth failure 401, and 500 only a provider or internal failure.
C7_StatusClasses ==
    \A p \in Slots :
        Done(p) =>
            /\ kind[p] \in {"MissingField", "InvalidRequest", "InvalidLanguageTag"}
                 => status[p] = StatusBadRequest
            /\ kind[p] = "Unauthorized" => status[p] = StatusUnauthorized
            /\ status[p] = StatusInternalServerError
                 => kind[p] \in {"ProviderError", "NoTranslation", "CacheDecode"}

\* C8: two requests with the same triple get the same key, and two requests
\* with the same target and text, one with an empty and one with a non-empty
\* source, get different keys; so an entry found by a request for its own
\* target and text was written with an empty source exactly when the request's
\* source is empty.
C8_HasKey(p) == cacheKey[p] # Empty

C8_KeySeparatesAutoDetect ==
    /\ \A p \in Slots, q \in Slots :
        (C8_HasKey(p) /\ C8_HasKey(q))
        => /\ Triple(req[p]) = Triple(req[q]) => cacheKey[p] = cacheKey[q]
           /\ ( /\ req[p].TargetLang = req[q].TargetLang
                /\ req[p].Text = req[q].Text
                /\ req[p].SourceLang = Empty /\ req[q].SourceLang # Empty )
              => cacheKey[p] # cacheKey[q]
    /\ \A p \in Slots :
        ( /\ seen[p].get = "found" /\ seen[p].by # NoTriple
          /\ seen[p].by.TargetLang = req[p].TargetLang
          /\ seen[p].by.Text = req[p].Text )
        => (seen[p].by.SourceLang = Empty <=> req[p].SourceLang = Empty)

C8_Witness ==
    \E p \in Slots, q \in Slots :
        /\ req[p].TargetLang = req[q].TargetLang /\ req[p].Text = req[q].Text
        /\ req[p].SourceLang = Empty /\ req[q].SourceLang \in Parsable
        /\ Done(p) /\ seen[p].set = "ok"
        /\ Done(q) /\ seen[q].get = "nil" /\ cacheKey[p] \in DOMAIN cache

\* C9 (as amended): a request with text="" that passes the auth guard fails
\* MissingField (400) whatever its source_lang and target_lang are, with no
\* cache or provider call.
C9_EmptyText(p) == Started(p) /\ Posted(req[p]) /\ req[p].Text = Empty

C9_EmptyTextMissingField ==
    \A p \in Slots :
        (C9_EmptyText(p) /\ req[p].AuthToken = authToken)
        => /\ Done(p) /\ kind[p] = "MissingField" /\ status[p] = StatusBadRequest
           /\ calls[p] = NoCalls

C9_Witness ==
    \E p \in Slots, q \in Slots :
        /\ C9_EmptyText(p) /\ kind[p] = "MissingField" /\ req[p].TargetLang \in Parsable
        /\ C9_EmptyText(q) /\ kind[q] = "MissingField" /\ req[q].TargetLang = Empty
        /\ req[q].SourceLang # Empty

\* C9 (as claimed): a request with text="" fails MissingField regardless of
\* its other fields, the auth_token among them.
C9_EmptyTextAnyFields ==
    \A p \in Slots :
        C9_EmptyText(p) => Done(p) /\ kind[p] = "MissingField" /\ calls[p] = NoCalls

\* C10: a request that succeeded has cacheHit=true exactly when its result
\* came from the cache lookup and it made no provider call; a result built
\* from a provider call has cacheHit=false.
C10_CacheHitIffServedFromCache ==
    \A p \in Slots :
        (Done(p) /\ status[p] = StatusOK)
        => /\ response[p].CacheHit <=> (seen[p].get = "found" /\ calls[p].prov = 0)
           /\ calls[p].prov > 0 => ~ response[p].CacheHit
           /\ seen[p].get = "found" => calls[p].prov = 0

C10_Witness ==
    \E p \in Slots, q \in Slots :
        /\ Done(p) /\ status[p] = StatusOK /\ response[p].CacheHit /\ calls[p].prov = 0
        /\ Done(q) /\ status[q] = StatusOK /\ ~ response[q].CacheHit /\ calls[q].prov = 1


\* The source language the provider reports when it detected none:
\* language.Und.String().
Undetermined == <<"u","n","d">>

C11_AutoDetect(p) == ValidRequest(req[p]) /\ req[p].SourceLang = Empty

\* C11 (as amended): in auto-detect mode, a provider answer with zero results
\* fails the request with "no translation returned" (500) and writes nothing
\* to the cache; a translation whose reported source language is undetermined
\* is not a failure: the request succeeds with that source and stores it.
C11_ZeroResultsFail ==
    /\ [](\A p \in Slots :
            /\ (C11_AutoDetect(p) /\ seen[p].prov = "empty")
               => /\ Done(p) /\ kind[p] = "NoTranslation"
                  /\ status[p] = StatusInternalServerError
                  /\ calls[p].set = 0
            /\ (C11_AutoDetect(p) /\ Done(p) /\ seen[p].prov = "ok"
                  /\ seen[p].source = Undetermined)
               => /\ status[p] = StatusOK /\ calls[p].set = 1
                  /\ response[p].SourceLang = Undetermined)
    /\ [][\A p \in Slots :
            (seen[p].prov = "none" /\ seen'[p].prov = "empty") => cache' = cache]_vars

C11_Witness ==
    \E p \in Slots, q \in Slots :
        /\ C11_AutoDetect(p) /\ seen[p].prov = "empty" /\ kind[p] = "NoTranslation"
        /\ cache # << >>
        /\ C11_AutoDetect(q) /\ Done(q) /\ seen[q].source = Undetermined
        /\ seen[q].set = "ok"

\* C11 (as claimed): in auto-detect mode, zero results or an undetermined
\* detected language fail the request with "no translation returned", and
\* nothing is written to the cache.
C11_NoDetectionFails ==
    \A p \in Slots :
        ( /\ C11_AutoDetect(p) /\ Done(p)
          /\ \/ seen[p].prov = "empty"
             \/ seen[p].prov = "ok" /\ seen[p].source = Undetermined )
        => kind[p] = "NoTranslation" /\ calls[p].set = 0

\* C12: a request with a non-empty sourceLang that is answered by a provider
\* call returns, and writes to the cache, exactly the supplied sourceLang,
\* whatever source the provider's answer reports.
C12_SuppliedSourceKept ==
    \A p \in Slots :
        (req[p].SourceLang # Empty /\ seen[p].prov = "ok")
        => /\ response[p].SourceLang = req[p].SourceLang
           /\ (seen[p].set = "ok" /\ cacheKey[p] \in DOMAIN cache
                 /\ cache[cacheKey[p]].by = Triple(req[p]))
              => Member(cache[cacheKey[p]].val, "source_lang", Empty) = req[p].SourceLang

C12_Witness ==
    \E p \in Slots :
        /\ Done(p) /\ req[p].SourceLang = <<"e","n">> /\ seen[p].prov = "ok"
        /\ seen[p].source = Undetermined /\ seen[p].set = "ok"
        /\ cacheKey[p] \in DOMAIN cache
        /\ response[p].SourceLang = <<"e","n">>

\* C13: a request issues at most one provider call; when that call fails the
\* request ends in ProviderError (500) with no further provider call and no
\* cache write.
C13_ProviderErrorNotRetried ==
    /\ [](\A p \in Slots :
            /\ calls[p].prov <= 1
            /\ seen[p].prov = "err"
               => /\ Done(p) /\ kind[p] = "ProviderError"
                  /\ status[p] = StatusInternalServerError
                  /\ calls[p].prov = 1 /\ calls[p].set = 0)
    /\ [][\A p \in Slots :
            (seen[p].prov = "none" /\ seen'[p].prov = "err") => cache' = cache]_vars

C13_Witness ==
    \E p \in Slots, q \in Slots :
        /\ Done(p) /\ seen[p].prov = "err" /\ status[p] = StatusInternalServerError
        /\ Done(q) /\ seen[q].set = "ok" /\ cacheKey[q] \in DOMAIN cache


\* C14: GET /health answers 503 exactly when the store does not answer the
\* liveness probe, and 200 otherwise, whether or not the provider is reachable.
C14_HealthFollowsStore ==
    health.method = "GET" =>
        /\ health.status = StatusServiceUnavailable <=> health.ping # "pong"
        /\ health.status = StatusOK <=> health.ping = "pong"

C14_Witness ==
    /\ health.method = "GET" /\ health.ping = "pong" /\ health.provider = "down"
    /\ health.status = StatusOK
    /\ \E p \in Slots : Done(p) /\ seen[p].set = "ok"


\* An entry that a request of the service wrote (not another writer's value).
Written(k) == k \in DOMAIN cache /\ cache[k].by # NoTriple

\* C15: concurrent requests with the same triple are not coalesced (each may
\* miss and call the provider), and the entry under a key is always absent or
\* the whole result of one request's store: a successful store replaces the
\* entry by the storing request's result whatever was there (last write wins)
\* and touches no other key.
C15_BlindOverwrite ==
    /\ [](\A k \in DOMAIN cache :
            Written(k) =>
                \E p \in Slots :
                    /\ seen[p].set = "ok" /\ cacheKey[p] = k
                    /\ ~ UnmarshalErr(cache[k].val)
                    /\ Unmarshal(cache[k].val) = response[p]
                    /\ cache[k].by = Triple(req[p]))
    /\ [][\A p \in Slots :
            (seen[p].set = "none" /\ seen'[p].set = "ok")
            => /\ cacheKey[p] \in DOMAIN cache'
               /\ Unmarshal(cache'[cacheKey[p]].val) = response[p]
               /\ \A k \in DOMAIN cache : k # cacheKey[p] => cache'[k] = cache[k]]_vars

C15_Witness ==
    /\ \A p \in Slots :
        /\ Done(p) /\ Triple(req[p]) = Triple(req[1])
        /\ seen[p].get = "nil" /\ calls[p].prov = 1 /\ seen[p].set = "ok"
    /\ \E p \in Slots, q \in Slots :
        /\ response[p] # response[q]
        /\ Written(cacheKey[p])
        /\ Unmarshal(cache[cacheKey[p]].val) = response[q]


\* C16: cache errors never change the outcome: a valid authorized request
\* whose provider call did not fail ends Succeeded whatever the cache does,
\* including when the lookup returns a value that cannot be deserialized.
C16_CacheErrorsAbsorbed ==
    \A p \in Slots :
        (Done(p) /\ ValidRequest(req[p]) /\ seen[p].prov \notin {"err", "empty"})
        => status[p] = StatusOK


\* A step of some request (the store's own steps move no request).
RequestStep == \E p \in Slots : pc'[p] # pc[p]

\* C17: the pipeline changes the cache only by writing an entry after a
\* successful provider call: a request that ends Unauthorized, MissingField,
\* InvalidLanguageTag or ProviderError, or that is served from the cache,
\* made no store call; a step of a request changes the cache only when it is
\* the store of a request whose provider call succeeded, and then only under
\* that request's key; and no step of a request removes an entry.
C17_WritesOnlyAfterProvider ==
    /\ [](\A p \in Slots :
            /\ calls[p].set > 0 => seen[p].prov = "ok"
            /\ (Done(p) /\ \/ kind[p] \in {"Unauthorized", "MissingField",
                                           "InvalidLanguageTag", "ProviderError"}
                           \/ response[p].CacheHit)
               => calls[p].set = 0 /\ seen[p].set = "none")
    /\ [][RequestStep =>
            /\ DOMAIN cache \subseteq DOMAIN cache'
            /\ cache' # cache =>
                \E p \in Slots :
                    /\ pc[p] = "store" /\ pc'[p] = "done" /\ seen[p].prov = "ok"
                    /\ \A k \in DOMAIN cache : k # cacheKey[p] => cache'[k] = cache[k]
                    /\ DOMAIN cache' = DOMAIN cache \cup {cacheKey[p]}]_vars

C17_Witness ==
    \E p \in Slots, q \in Slots :
        /\ Done(p) /\ seen[p].set = "ok" /\ Written(cacheKey[p])
        /\ Done(q) /\ kind[q] = "ProviderError" /\ cacheKey[q] # cacheKey[p]
        /\ cacheKey[q] \notin DOMAIN cache

\* The cache_hit member as it stands in a stored value.
StoredCacheHit(v) == Member(v, "cache_hit", <<"false">>)

\* C18: every entry the pipeline writes is serialized with cache_hit=false:
\* no entry written by a request holds cache_hit=true, also after requests
\* were served from that entry.
C18_PersistedCacheHitFalse ==
    \A k \in DOMAIN cache :
        Written(k) => /\ StoredCacheHit(cache[k].val) = <<"false">>
                      /\ ~ Unmarshal(cache[k].val).CacheHit

C18_Witness ==
    \E p \in Slots, q \in Slots :
        /\ Done(p) /\ seen[p].set = "ok"
        /\ Done(q) /\ seen[q].get = "found" /\ response[q].CacheHit
        /\ cacheKey[q] = cacheKey[p] /\ Written(cacheKey[p])
        /\ StoredCacheHit(cache[cacheKey[p]].val) = <<"false">>


\* C19: every entry a request writes carries the same TTL of 14 days whatever
\* the request's fields; and a lookup made when the entry is gone (its TTL
\* elapsed with no new write) is a miss: of two identical valid requests, the
\* second, made after the first one's entry expired, is answered with
\* cache_hit=false after a provider call of its own.
C19_FixedTTLThenMiss ==
    /\ TTL = 14
    /\ [](\A k \in DOMAIN cache : Written(k) => cache[k].ttl = TTL)
    /\ [](\A p \in Slots :
            (Done(p) /\ ValidRequest(req[p]) /\ seen[p].get = "nil")
            => status[p] = StatusOK /\ ~ response[p].CacheHit /\ calls[p].prov = 1)
    /\ [][\A p \in Slots :
            (pc[p] = "lookup" /\ pc'[p] # "lookup" /\ cacheKey[p] \notin DOMAIN cache)
            => /\ seen'[p].get = "nil"
               /\ ValidRequest(req[p]) => pc'[p] = "translate"]_vars

C19_Witness ==
    \E i \in Slots, j \in Slots :
        /\ i < j /\ Done(i) /\ Done(j)
        /\ ValidRequest(req[i]) /\ Triple(req[j]) = Triple(req[i])
        /\ req[j].AuthToken = authToken
        /\ seen[i].set = "ok"
        /\ seen[j].get = "nil" /\ calls[j].prov = 1 /\ ~ response[j].CacheHit
        /\ Written(cacheKey[j]) /\ cache[cacheKey[j]].ttl = 14


\* C20: cache isolation: a request served from the cache receives a result
\* that a request with exactly the same (source_lang, target_lang, text)
\* stored; its target_lang is the request's target_lang, and it is never
\* served from an entry stored for a different triple with the same key.
C20_CacheIsolation ==
    \A p \in Slots :
        (Done(p) /\ status[p] = StatusOK /\ response[p].CacheHit
                 /\ seen[p].by # NoTriple)
        => /\ seen[p].by = Triple(req[p])
           /\ response[p].TargetLang = req[p].TargetLang

=============================================================================
